---- MODULE Spec2Model ----
(***************************************************************************)
(* Model of the Wordle solver in src/src/Main.cpp: the Word and            *)
(* GuessFeedback value types, the WordleGame engine (computeFeedbackId,    *)
(* isPossibleAnswer, pushFeedback, popFeedback, getGuess) and the          *)
(* interaction loop of main.                                               *)
(*                                                                         *)
(* A Word is modelled by its letters, a tuple of WORD_LENGTH one-character *)
(* strings; C++ position i (0-based) is tuple index i + 1.  A              *)
(* GuessFeedback is the record [guess, feedback] of its two arrays.        *)
(* getGuess is split at its speculative pushFeedback / popFeedback calls,  *)
(* so that the states in between are states of the model.                  *)
(***************************************************************************)
EXTENDS Integers, Sequences, FiniteSets

VARIABLES
    guessWords,     \* WordleGame::guessWords (after the constructor's append)
    answerWords,    \* WordleGame::answerWords
    feedbacks,      \* WordleGame::feedbacks, the constraint stack
    pc,             \* position of main: "call", "score", "pushed", "prompt", "crashed"
    guess,          \* main's local `guess`, the word on display
    line,           \* main's local `line`, the last line read from stdin
    gi,             \* getGuess: index of potentialGuess in guessWords (1-based)
    counts,         \* getGuess: the non-zero entries of feedbackIdCounts
    fid,            \* getGuess: loop variable feedbackId of the push/pop loop
    acc,            \* getGuess: numberRemainingPossibleSolutions
    least,          \* getGuess: leastPossibleSolutions
    best,           \* getGuess: bestGuess
    entry,          \* the value of feedbacks when getGuess was last called
    hidden,         \* the word the player has in mind (<<>> when unconstrained)
    probe           \* one evaluation of the pure feedback functions

vars == <<guessWords, answerWords, feedbacks, pc, guess, line, gi, counts, fid,
          acc, least, best, entry, hidden, probe>>

gameVars == <<guessWords, answerWords, feedbacks, pc, guess, line, gi, counts,
              fid, acc, least, best, entry, hidden>>

-----------------------------------------------------------------------------
(* Program constants *)

NUMBER_OF_LETTERS == 26
WORD_LENGTH == 5
FEEDBACK_NOT_IN_WORD == 0
FEEDBACK_IN_WORD == 1
FEEDBACK_IN_POSITION == 2

\* letter - 'a' for the letters 'a' .. 'z'
LetterIndex ==
    [a |-> 0, b |-> 1, c |-> 2, d |-> 3, e |-> 4, f |-> 5, g |-> 6,
     h |-> 7, i |-> 8, j |-> 9, k |-> 10, l |-> 11, m |-> 12, n |-> 13,
     o |-> 14, p |-> 15, q |-> 16, r |-> 17, s |-> 18, t |-> 19, u |-> 20,
     v |-> 21, w |-> 22, x |-> 23, y |-> 24, z |-> 25]

Positions == 0 .. (WORD_LENGTH - 1)

-----------------------------------------------------------------------------
(* Bit operations on non-negative integers *)

Pow2[n \in Nat] == IF n = 0 THEN 1 ELSE 2 * Pow2[n - 1]

ShiftLeft(x, n) == x * Pow2[n]

ShiftRight(x, n) == x \div Pow2[n]

BitOrOf[x \in Nat, y \in Nat] ==
    IF x = 0 THEN y
    ELSE IF y = 0 THEN x
    ELSE (IF (x % 2 = 1) \/ (y % 2 = 1) THEN 1 ELSE 0)
         + 2 * BitOrOf[x \div 2, y \div 2]

BitOr(x, y) == BitOrOf[x, y]

BitAndOf[x \in Nat, y \in Nat] ==
    IF x = 0 \/ y = 0 THEN 0
    ELSE (IF (x % 2 = 1) /\ (y % 2 = 1) THEN 1 ELSE 0)
         + 2 * BitAndOf[x \div 2, y \div 2]

BitAnd(x, y) == BitAndOf[x, y]

MAX_FEEDBACK_ID ==
    BitOr(ShiftLeft(FEEDBACK_IN_POSITION, 0 * 2),
    BitOr(ShiftLeft(FEEDBACK_IN_POSITION, 1 * 2),
    BitOr(ShiftLeft(FEEDBACK_IN_POSITION, 2 * 2),
    BitOr(ShiftLeft(FEEDBACK_IN_POSITION, 3 * 2),
          ShiftLeft(FEEDBACK_IN_POSITION, 4 * 2)))))

-----------------------------------------------------------------------------
(* Word *)

\* indexForLetter throws for a character outside 'a'..'z'
InvalidLetter(letter) == letter \notin DOMAIN LetterIndex

indexForLetter(letter) == LetterIndex[letter]

\* Word::Word(std::string) succeeds: right length, every letter in range
WordConstructs(wordString) ==
    /\ Len(wordString) = WORD_LENGTH
    /\ \A i \in 1 .. WORD_LENGTH : ~InvalidLetter(wordString[i])

\* Word::operator[]
LetterAt(word, i) == word[i + 1]

\* the bitset of positions per letter index that the constructor fills
letterPositionMap(word) ==
    [idx \in 0 .. (NUMBER_OF_LETTERS - 1) |->
        {i \in Positions : indexForLetter(LetterAt(word, i)) = idx}]

containsLetter(word, letter) ==
    letterPositionMap(word)[indexForLetter(letter)] # {}

\* Word::toString writes the letters back in order
toString(word) == [i \in 1 .. WORD_LENGTH |-> LetterAt(word, i - 1)]

-----------------------------------------------------------------------------
(* GuessFeedback *)

\* variant of GuessFeedbackFromId that shifts by i instead of 2 * i
GuessFeedbackFromIdM(guessWord, feedbackId) ==
    [guess    |-> [i \in 1 .. WORD_LENGTH |-> LetterAt(guessWord, i - 1)],
     feedback |-> [i \in 1 .. WORD_LENGTH |->
                      BitAnd(ShiftRight(feedbackId, i - 1), 3)]]

\* GuessFeedback(Word, int32_t): field i of the id is feedback[i]
GuessFeedbackFromId(guessWord, feedbackId) ==
    [guess    |-> [i \in 1 .. WORD_LENGTH |-> LetterAt(guessWord, i - 1)],
     feedback |-> [i \in 1 .. WORD_LENGTH |->
                      BitAnd(ShiftRight(feedbackId, 2 * (i - 1)), 3)]]

\* variant of FeedbackCode whose default case does not throw
FeedbackCodeM(c) ==
    CASE c = "y" -> FEEDBACK_IN_WORD
      [] c = "g" -> FEEDBACK_IN_POSITION
      [] OTHER   -> FEEDBACK_NOT_IN_WORD

\* the switch of GuessFeedback(std::string, std::string); -1 is the throw
FeedbackCode(c) ==
    CASE c = "r" -> FEEDBACK_NOT_IN_WORD
      [] c = "y" -> FEEDBACK_IN_WORD
      [] c = "g" -> FEEDBACK_IN_POSITION
      [] OTHER   -> -1

\* GuessFeedback(std::string, std::string) throws std::runtime_error
GuessFeedbackThrows(guessString, feedbackString) ==
    \/ Len(guessString) # WORD_LENGTH
    \/ Len(feedbackString) # WORD_LENGTH
    \/ \E i \in 1 .. WORD_LENGTH : FeedbackCode(feedbackString[i]) = -1

\* the object it builds when it does not throw
GuessFeedbackFromStrings(guessString, feedbackString) ==
    [guess    |-> [i \in 1 .. WORD_LENGTH |-> guessString[i]],
     feedback |-> [i \in 1 .. WORD_LENGTH |-> FeedbackCode(feedbackString[i])]]

\* one iteration of the loop of isConsistentWith: position i passes
PositionConsistent(gf, word, i) ==
    LET code == gf.feedback[i + 1]
        g    == gf.guess[i + 1]
    IN  CASE code = FEEDBACK_NOT_IN_WORD -> ~containsLetter(word, g)
          [] code = FEEDBACK_IN_WORD     ->
                 containsLetter(word, g) /\ LetterAt(word, i) # g
          [] code = FEEDBACK_IN_POSITION -> LetterAt(word, i) = g
          [] OTHER -> TRUE

isConsistentWith(gf, word) ==
    \A i \in Positions : PositionConsistent(gf, word, i)

-----------------------------------------------------------------------------
(* WordleGame *)

\* variant of the constructor without the append
WordleGameGuessWordsM(guessWordList, answerWordList) == guessWordList

\* the constructor appends the answer list to the guess list
WordleGameGuessWords(guessWordList, answerWordList) ==
    guessWordList \o answerWordList

\* variant of PositionCode that tests containsLetter first and swaps the
\* two codes of a contained letter
PositionCodeM(guessWord, solution, i) ==
    IF containsLetter(solution, LetterAt(guessWord, i))
    THEN IF LetterAt(solution, i) = LetterAt(guessWord, i)
         THEN FEEDBACK_IN_WORD
         ELSE FEEDBACK_IN_POSITION
    ELSE FEEDBACK_NOT_IN_WORD

\* the code of one position in computeFeedbackId
PositionCode(guessWord, solution, i) ==
    IF LetterAt(solution, i) = LetterAt(guessWord, i)
    THEN FEEDBACK_IN_POSITION
    ELSE IF containsLetter(solution, LetterAt(guessWord, i))
         THEN FEEDBACK_IN_WORD
         ELSE FEEDBACK_NOT_IN_WORD

RECURSIVE FeedbackIdFrom(_, _, _, _)
FeedbackIdFrom(guessWord, solution, i, result) ==
    IF i >= WORD_LENGTH THEN result
    ELSE FeedbackIdFrom(guessWord, solution, i + 1,
             BitOr(result, ShiftLeft(PositionCode(guessWord, solution, i), 2 * i)))

computeFeedbackId(guessWord, solution) ==
    FeedbackIdFrom(guessWord, solution, 0, 0)

computeFeedback(guessWord, solution) ==
    GuessFeedbackFromId(guessWord, computeFeedbackId(guessWord, solution))

pushFeedback(fs, guessFeedback) == Append(fs, guessFeedback)

\* variant of popFeedback that removes nothing
popFeedbackM(fs) == fs

\* variant of popFeedback that removes every constraint
popFeedbackClears(fs) == << >>

popFeedback(fs) == SubSeq(fs, 1, Len(fs) - 1)

isPossibleAnswer(fs, word) ==
    \A j \in 1 .. Len(fs) : isConsistentWith(fs[j], word)

\* variant of FirstRound: the check of the empty stack is missing
FirstRoundM(fs) == FALSE

\* getGuess, line 237: the first round is recognised by the empty stack
FirstRound(fs) == Len(fs) = 0

\* "roate", the constant getGuess returns in the first round
OpeningGuess == << "r", "o", "a", "t", "e" >>

\* indexes of the answer words consistent with every constraint of fs
PossibleIndexes(fs) ==
    {j \in 1 .. Len(answerWords) : isPossibleAnswer(fs, answerWords[j])}

\* getGuess, lines 246-253: the count of the first loop
numPossibleSolutions(fs) == Cardinality(PossibleIndexes(fs))

\* variant of EarlyReturn with the threshold 1
EarlyReturnM(n) == n <= 1

\* getGuess, line 265
EarlyReturn(n) == n <= 2

\* getGuess, lines 267-273: the first answer word that is possible
FirstPossible(fs) ==
    LET possible == PossibleIndexes(fs)
    IN  answerWords[CHOOSE j \in possible : \A k \in possible : j <= k]

\* getGuess, lines 278-288: feedbackIdCounts after the counting loop,
\* restricted to its non-zero entries
feedbackIdCounts(potentialGuess, fs) ==
    LET possible == PossibleIndexes(fs)
        idOf     == [j \in possible |->
                        computeFeedbackId(potentialGuess, answerWords[j])]
    IN  [k \in {idOf[j] : j \in possible} |->
            Cardinality({j \in possible : idOf[j] = k})]

\* getGuess, lines 289-292: the next feedbackId >= from whose count is not 0,
\* MAX_FEEDBACK_ID + 1 when the loop runs out
NextFeedbackId(cnts, from) ==
    LET left == {k \in DOMAIN cnts : k >= from /\ k <= MAX_FEEDBACK_ID}
    IN  IF left = {} THEN MAX_FEEDBACK_ID + 1
        ELSE CHOOSE k \in left : \A m \in left : k <= m

\* getGuess, lines 294-300: count is added once per possible answer word
RECURSIVE AddPerPossible(_, _, _, _)
AddPerPossible(fs, j, count, sum) ==
    IF j > Len(answerWords) THEN sum
    ELSE AddPerPossible(fs, j + 1, count,
             IF isPossibleAnswer(fs, answerWords[j]) THEN sum + count ELSE sum)

\* variant of Improves with <= for <
ImprovesM(remaining, leastSoFar) ==
    remaining <= leastSoFar \/ leastSoFar < 0

\* getGuess, line 304
Improves(remaining, leastSoFar) ==
    remaining < leastSoFar \/ leastSoFar < 0

-----------------------------------------------------------------------------
(* Bounds and input sets *)

MaxGuessList == 1      \* longest guess list read from guesses.txt
MaxAnswers == 3        \* longest answer list read from answers.txt
MaxRounds == 2         \* accepted feedback lines per run

apple == << "a", "p", "p", "l", "e" >>
angle == << "a", "n", "g", "l", "e" >>
ample == << "a", "m", "p", "l", "e" >>
otter == << "o", "t", "t", "e", "r" >>
paper == << "p", "a", "p", "e", "r" >>
eerie == << "e", "e", "r", "i", "e" >>
llama == << "l", "l", "a", "m", "a" >>
jazzy == << "j", "a", "z", "z", "y" >>

\* words the files may hold
GuessUniverse == {OpeningGuess, ample}
AnswerUniverse == {apple, angle, ample}

\* answer words of the runs with a hidden solution
TruthUniverse == AnswerUniverse \cup {otter}

\* words the player may have in mind when typing an outcome
PlayerWords == AnswerUniverse

\* words the feedback functions are evaluated on, one pair at a time: the
\* words above and every word over the letters a, p
ProbeWords ==
    AnswerUniverse \cup {OpeningGuess, otter, paper, eerie, llama, jazzy}
        \cup [1 .. WORD_LENGTH -> {"a", "p"}]

SeqsUpTo(S, n) == UNION {[1 .. k -> S] : k \in 0 .. n}

\* the symbol the player types for an outcome code
SymbolOf(code) ==
    CASE code = FEEDBACK_NOT_IN_WORD -> "r"
      [] code = FEEDBACK_IN_WORD     -> "y"
      [] code = FEEDBACK_IN_POSITION -> "g"

\* the line a player types who has h in mind and sees the word `shown`
OutcomeLine(shown, h) ==
    [i \in 1 .. WORD_LENGTH |->
        SymbolOf(computeFeedback(shown, h).feedback[i])]

\* the malformed lines typed: empty, too long, with a foreign symbol
MalformedLines ==
    { << >>,
      << "g", "g", "g", "g", "g", "g" >>,
      << "r", "y", "g", "x", "r" >> }

IdleProbe ==
    [step |-> "idle", guess |-> << >>, solution |-> << >>, id |-> 0,
     outcome |-> << >>, consistent |-> FALSE]

-----------------------------------------------------------------------------
(* The game: construction, getGuess, the loop of main *)

NoLocals ==
    /\ gi' = 0
    /\ counts' = << >>
    /\ fid' = 0
    /\ acc' = 0
    /\ least' = -1
    /\ best' = << >>

\* the state after readFileLines and the WordleGame constructor
Constructed(gl, al) ==
    /\ \A i \in 1 .. Len(gl) : WordConstructs(gl[i])
    /\ \A i \in 1 .. Len(al) : WordConstructs(al[i])
    /\ guessWords = WordleGameGuessWords(gl, al)
    /\ answerWords = al
    /\ feedbacks = << >>
    /\ pc = "call"
    /\ guess = << >>
    /\ line = << >>
    /\ gi = 0
    /\ counts = << >>
    /\ fid = 0
    /\ acc = 0
    /\ least = -1
    /\ best = << >>
    /\ entry = << >>

Init ==
    /\ \E gl \in SeqsUpTo(GuessUniverse, MaxGuessList),
          al \in SeqsUpTo(AnswerUniverse, MaxAnswers) : Constructed(gl, al)
    /\ hidden = << >>
    /\ probe = IdleProbe

\* getGuess returns word to main, which stores it in `guess`
Return(word) ==
    /\ guess' = word
    /\ pc' = "prompt"
    /\ NoLocals

\* getGuess from its call to its first speculative push (or its return)
GetGuess ==
    /\ pc = "call"
    /\ entry' = feedbacks
    /\ UNCHANGED <<guessWords, answerWords, feedbacks, line, hidden, probe>>
    /\ IF FirstRound(feedbacks)
       THEN Return(OpeningGuess)
       ELSE IF Len(guessWords) = 0
       THEN \* (*guessWords)[0] of an empty vector: undefined behaviour
            \/ /\ pc' = "crashed"
               /\ guess' = guess
               /\ NoLocals
            \/ \E garbage \in PlayerWords : Return(garbage)
       ELSE IF /\ EarlyReturn(numPossibleSolutions(feedbacks))
               /\ PossibleIndexes(feedbacks) # {}
       THEN Return(FirstPossible(feedbacks))
       ELSE /\ pc' = "score"
            /\ gi' = 1
            /\ counts' = feedbackIdCounts(guessWords[1], feedbacks)
            /\ fid' = 0
            /\ acc' = 0
            /\ least' = -1
            /\ best' = guessWords[1]
            /\ guess' = guess

\* lines 289-293: skip the empty buckets, push the next hypothetical outcome
ScorePush ==
    /\ pc = "score"
    /\ NextFeedbackId(counts, fid) <= MAX_FEEDBACK_ID
    /\ fid' = NextFeedbackId(counts, fid)
    /\ feedbacks' = pushFeedback(feedbacks,
                        GuessFeedbackFromId(guessWords[gi], fid'))
    /\ pc' = "pushed"
    /\ UNCHANGED <<guessWords, answerWords, guess, line, gi, counts, acc,
                   least, best, entry, hidden, probe>>

\* lines 294-301: accumulate under the hypothetical outcome, then pop it
ScorePop ==
    /\ pc = "pushed"
    /\ acc' = AddPerPossible(feedbacks, 1, counts[fid], acc)
    /\ feedbacks' = popFeedback(feedbacks)
    /\ fid' = fid + 1
    /\ pc' = "score"
    /\ UNCHANGED <<guessWords, answerWords, guess, line, gi, counts, least,
                   best, entry, hidden, probe>>

\* lines 304-310 and 276-288: keep the better guess, then go on to the next
\* potential guess or return the best one
NextGuess ==
    /\ pc = "score"
    /\ NextFeedbackId(counts, fid) > MAX_FEEDBACK_ID
    /\ LET better   == Improves(acc, least)
           newLeast == IF better THEN acc ELSE least
           newBest  == IF better THEN guessWords[gi] ELSE best
       IN  IF gi < Len(guessWords)
           THEN /\ gi' = gi + 1
                /\ counts' = feedbackIdCounts(guessWords[gi + 1], feedbacks)
                /\ fid' = 0
                /\ acc' = 0
                /\ least' = newLeast
                /\ best' = newBest
                /\ UNCHANGED <<pc, guess>>
           ELSE Return(newBest)
    /\ UNCHANGED <<guessWords, answerWords, feedbacks, line, entry, hidden,
                   probe>>

\* lines 374-387: one pass of the do-while loop on the line l; rounds is the
\* cap of the model on accepted lines
ReadFeedback(l, rounds) ==
    /\ pc = "prompt"
    /\ Len(feedbacks) < rounds
    /\ line' = l
    /\ IF GuessFeedbackThrows(toString(guess), l)
       THEN UNCHANGED <<feedbacks, pc>>
       ELSE /\ feedbacks' = pushFeedback(feedbacks,
                                GuessFeedbackFromStrings(toString(guess), l))
            /\ pc' = "call"
    /\ UNCHANGED <<guessWords, answerWords, guess, gi, counts, fid, acc,
                   least, best, entry, hidden, probe>>

\* the lines the player may type: a malformed one, or the outcome of the
\* word on display against one of the words in `minds`
TypedLines(minds) ==
    MalformedLines \cup {OutcomeLine(guess, h) : h \in minds}

Feedback ==
    /\ pc = "prompt"
    /\ \E l \in TypedLines(PlayerWords) : ReadFeedback(l, MaxRounds)

Next ==
    \/ GetGuess
    \/ ScorePush
    \/ ScorePop
    \/ NextGuess
    \/ Feedback

Spec == Init /\ [][Next]_vars

-----------------------------------------------------------------------------
(* The game with a hidden solution and truthful feedback *)

NoDuplicates(ws) ==
    \A i, j \in 1 .. Len(ws) : ws[i] = ws[j] => i = j

\* rounds that let every run of TruthSpec reach its last guess
TruthRounds == MaxAnswers + 1

TruthInit ==
    /\ \E gl \in SeqsUpTo(GuessUniverse, MaxGuessList),
          al \in SeqsUpTo(TruthUniverse, MaxAnswers) :
          /\ NoDuplicates(al)
          /\ Constructed(gl, al)
          /\ \E j \in 1 .. Len(al) : hidden = al[j]
    /\ probe = IdleProbe

\* the outcome of the word on display against the hidden word: accepted
TruthfulFeedback ==
    /\ pc = "prompt"
    /\ \E l \in TypedLines({hidden}) \ MalformedLines :
          ReadFeedback(l, TruthRounds)

Compute == GetGuess \/ ScorePush \/ ScorePop \/ NextGuess

TruthNext ==
    \/ GetGuess
    \/ ScorePush
    \/ ScorePop
    \/ NextGuess
    \/ TruthfulFeedback

\* the program runs on while it can, and the player goes on answering
TruthSpec ==
    /\ TruthInit
    /\ [][TruthNext]_vars
    /\ WF_vars(Compute)
    /\ WF_vars(TruthfulFeedback)

-----------------------------------------------------------------------------
(* The feedback functions, evaluated on one pair of words *)

ProbeInit ==
    /\ Constructed(<< >>, << >>)
    /\ hidden = << >>
    /\ \E g \in ProbeWords, s \in ProbeWords :
          /\ WordConstructs(g)
          /\ WordConstructs(s)
          /\ probe = [IdleProbe EXCEPT !.step = "start", !.guess = g,
                                        !.solution = s]

\* computeFeedbackId(guess, solution)
ProbeId ==
    /\ probe.step = "start"
    /\ probe' = [probe EXCEPT
                    !.step = "id",
                    !.id = computeFeedbackId(probe.guess, probe.solution)]
    /\ UNCHANGED gameVars

\* GuessFeedback(guess, feedbackId): the per-position outcome
ProbeDecode ==
    /\ probe.step = "id"
    /\ probe' = [probe EXCEPT
                    !.step = "decoded",
                    !.outcome = GuessFeedbackFromId(probe.guess, probe.id).feedback]
    /\ UNCHANGED gameVars

\* computeFeedback(guess, solution).isConsistentWith(solution)
ProbeConsistent ==
    /\ probe.step = "decoded"
    /\ probe' = [probe EXCEPT
                    !.step = "done",
                    !.consistent =
                        isConsistentWith(
                            computeFeedback(probe.guess, probe.solution),
                            probe.solution)]
    /\ UNCHANGED gameVars

ProbeNext ==
    \/ ProbeId
    \/ ProbeDecode
    \/ ProbeConsistent

ProbeSpec == ProbeInit /\ [][ProbeNext]_vars

-----------------------------------------------------------------------------
(* Properties *)

\* the candidates under the stack fs, as a count
NumCandidates(fs) == Cardinality(PossibleIndexes(fs))

\* bucket[k] of the guess g: the candidates whose outcome against g is k
Bucket(g, k, fs) ==
    Cardinality({j \in PossibleIndexes(fs) :
                    computeFeedbackId(g, answerWords[j]) = k})

RECURSIVE SumOfSquares(_, _, _)
SumOfSquares(keys, g, fs) ==
    IF keys = {} THEN 0
    ELSE LET k == CHOOSE x \in keys : TRUE
         IN  Bucket(g, k, fs) * Bucket(g, k, fs)
             + SumOfSquares(keys \ {k}, g, fs)

\* score(g): the sum over the non-empty buckets of bucket[k] squared
Score(g, fs) ==
    SumOfSquares({computeFeedbackId(g, answerWords[j]) :
                     j \in PossibleIndexes(fs)}, g, fs)

\* the word w is the first candidate in the order of the answer list
IsFirstCandidate(w, fs) ==
    \E j \in PossibleIndexes(fs) :
        /\ w = answerWords[j]
        /\ \A k \in 1 .. (j - 1) : k \notin PossibleIndexes(fs)

\* the word w is the first word of the guess vocabulary of minimal score
IsFirstMinimum(w, fs) ==
    \E j \in 1 .. Len(guessWords) :
        /\ w = guessWords[j]
        /\ \A m \in 1 .. Len(guessWords) :
              Score(guessWords[j], fs) <= Score(guessWords[m], fs)
        /\ \A m \in 1 .. (j - 1) :
              Score(guessWords[m], fs) > Score(guessWords[j], fs)

\* a feedback line of WORD_LENGTH symbols, each one of r, y, g
WellFormed(l) ==
    /\ Len(l) = 5
    /\ \A i \in 1 .. Len(l) : l[i] \in {"r", "y", "g"}

\* C1: with a non-empty stack and at least 3 candidates, getGuess returns
\* the first word, in the order of the guess vocabulary (whose tail is the
\* answer list), that minimises the sum of the squared bucket sizes.
C1_MinimalScoreFirst ==
    (pc = "prompt" /\ feedbacks # << >> /\ NumCandidates(feedbacks) >= 3)
    => /\ Len(guessWords) >= Len(answerWords)
       /\ SubSeq(guessWords, Len(guessWords) - Len(answerWords) + 1,
                 Len(guessWords)) = answerWords
       /\ IsFirstMinimum(guess, feedbacks)

\* C1 witness: a full search returned a word that is not the first of the
\* vocabulary and that ties with a different word further on
C1_Witness ==
    /\ pc = "prompt"
    /\ feedbacks # << >>
    /\ NumCandidates(feedbacks) >= 3
    /\ guess # guessWords[1]
    /\ Score(guessWords[1], feedbacks) > Score(guess, feedbacks)
    /\ \E m \in 1 .. Len(guessWords) :
          /\ guessWords[m] # guess
          /\ Score(guessWords[m], feedbacks) = Score(guess, feedbacks)

\* C2 as stated: "apple" against "angle" yields
\* [CORRECT, CORRECT, ABSENT, PRESENT_ELSEWHERE, CORRECT].
C2_AsStated ==
    (probe.guess = apple /\ probe.solution = angle
        /\ probe.step \in {"decoded", "done"})
    => probe.outcome = << 2, 2, 0, 1, 2 >>

\* C2 amended: "apple" against "angle" yields
\* [CORRECT, ABSENT, ABSENT, CORRECT, CORRECT].
C2_AppleAngle ==
    (probe.guess = apple /\ probe.solution = angle
        /\ probe.step \in {"decoded", "done"})
    => probe.outcome = << 2, 0, 0, 2, 2 >>

\* C2 witness: the outcome of "apple" against "angle" has been decoded
C2_Witness ==
    /\ probe.guess = apple
    /\ probe.solution = angle
    /\ probe.step = "decoded"
    /\ probe.id = 642

\* C3: with a non-empty stack and 1 or 2 candidates, getGuess returns the
\* first candidate of the answer list, and the scoring search does not run.
C3_FewCandidatesFirst ==
    /\ (pc = "prompt" /\ feedbacks # << >>
            /\ NumCandidates(feedbacks) \in {1, 2})
       => IsFirstCandidate(guess, feedbacks)
    /\ (pc \in {"score", "pushed"}) => NumCandidates(entry) \notin {1, 2}

\* C3 witness: two candidates, the first one returned, although the search
\* would have returned an earlier word of the vocabulary with no higher score
C3_Witness ==
    /\ pc = "prompt"
    /\ feedbacks # << >>
    /\ NumCandidates(feedbacks) = 2
    /\ IsFirstCandidate(guess, feedbacks)
    /\ ~IsFirstMinimum(guess, feedbacks)
    /\ guessWords[1] # guess
    /\ Score(guessWords[1], feedbacks) <= Score(guess, feedbacks)

\* C4: on the empty stack getGuess returns "roate", whatever the
\* vocabularies hold.
C4_OpeningGuess ==
    (pc \notin {"call"} /\ feedbacks = << >>)
    => (pc = "prompt" /\ guess = << "r", "o", "a", "t", "e" >>)

\* C4 witness: the opening guess returned with both vocabularies empty
C4_Witness ==
    /\ pc = "prompt"
    /\ feedbacks = << >>
    /\ guessWords = << >>
    /\ answerWords = << >>
    /\ guess = << "r", "o", "a", "t", "e" >>

\* C5: the constraint decoded from computeFeedbackId(g, s) with the guess g
\* is consistent with s.
C5_OwnFeedbackConsistent ==
    probe.step = "done" => probe.consistent

\* C5 witness: a pair of words whose outcome holds all three codes
C5_Witness ==
    /\ probe.step = "done"
    /\ probe.consistent
    /\ probe.guess # probe.solution
    /\ {probe.outcome[i] : i \in 1 .. Len(probe.outcome)} = {0, 1, 2}

\* C6: at the prompt a malformed line changes neither the stack nor the
\* guess and leaves the program at the prompt; a well-formed line pushes
\* exactly one constraint, that of the guess on display, and ends the round.
C6_MalformedRejected ==
    [][pc = "prompt" =>
         IF WellFormed(line')
         THEN /\ pc' = "call"
              /\ Len(feedbacks') = Len(feedbacks) + 1
              /\ SubSeq(feedbacks', 1, Len(feedbacks)) = feedbacks
              /\ feedbacks'[Len(feedbacks')].guess = guess
              /\ \A i \in 1 .. 5 :
                    feedbacks'[Len(feedbacks')].feedback[i] =
                        (CASE line'[i] = "r" -> 0
                           [] line'[i] = "y" -> 1
                           [] line'[i] = "g" -> 2)
         ELSE /\ pc' = "prompt"
              /\ feedbacks' = feedbacks
              /\ guess' = guess]_vars

\* C6 witness: a line of five symbols, one of them foreign, was rejected in
\* a later round
C6_Witness ==
    /\ pc = "prompt"
    /\ feedbacks # << >>
    /\ line = << "r", "y", "g", "x", "r" >>

\* C7: during getGuess the stack is the stack of the call, or that stack
\* with one speculative constraint on top; before each next feedback key or
\* potential guess, and on return, it is the stack of the call.
C7_StackRestored ==
    /\ (pc \in {"score", "prompt", "crashed"}) => feedbacks = entry
    /\ (pc = "pushed") =>
          /\ Len(feedbacks) = Len(entry) + 1
          /\ SubSeq(feedbacks, 1, Len(entry)) = entry

\* C7 witness: the search is past a speculative push and its pop, on a
\* later potential guess, with the stack of the call in place
C7_Witness ==
    /\ pc = "score"
    /\ gi >= 2
    /\ fid > 0
    /\ acc > 0
    /\ entry # << >>
    /\ feedbacks = entry

\* C8: the stack leaves the empty state only by an accepted feedback line,
\* and once non-empty it is non-empty in every later state, the states
\* between a speculative push and its pop included.
C8_TwoStates ==
    [][/\ (feedbacks # << >> => feedbacks' # << >>)
       /\ (feedbacks = << >> /\ feedbacks' # << >>)
          => (pc = "prompt" /\ pc' = "call" /\ Len(feedbacks') = 1
                /\ WellFormed(line'))]_vars

\* C8 witness: a speculative constraint has just been popped off a stack
\* that holds a single accepted constraint
C8_Witness ==
    /\ pc = "score"
    /\ fid > 0
    /\ Len(feedbacks) = 1
    /\ Len(entry) = 1

\* C9 as stated: with a non-empty stack and no candidate, getGuess does not
\* fail and returns the first entry of the guess vocabulary.
C9_EmptyCandidates ==
    /\ pc # "crashed"
    /\ (pc = "prompt" /\ feedbacks # << >> /\ NumCandidates(feedbacks) = 0)
       => (Len(guessWords) > 0 /\ guess = guessWords[1])

\* the same restricted to the runs whose guess vocabulary holds a word
C9_WithVocabulary ==
    (Len(guessWords) > 0) => C9_EmptyCandidates

\* C10 as stated: under truthful feedback the hidden word stays a candidate,
\* every round that starts with at least 3 candidates ends with fewer, and
\* from some round on getGuess returns the hidden word.
C10_AsStated ==
    /\ [](pc \in {"call", "prompt"} => isPossibleAnswer(feedbacks, hidden))
    /\ [][(pc = "prompt" /\ pc' = "call" /\ NumCandidates(feedbacks) >= 3)
            => NumCandidates(feedbacks') < NumCandidates(feedbacks)]_vars
    /\ <>[](guess = hidden)

\* C10 amended: the same, where only the rounds that start with a non-empty
\* stack and at least 3 candidates must end with fewer candidates.
C10_Convergence ==
    /\ [](pc \in {"call", "prompt"} => isPossibleAnswer(feedbacks, hidden))
    /\ [][(pc = "prompt" /\ pc' = "call" /\ feedbacks # << >>
              /\ NumCandidates(feedbacks) >= 3)
            => NumCandidates(feedbacks') < NumCandidates(feedbacks)]_vars
    /\ <>[](guess = hidden)

\* C10 witness: the second round started with 3 candidates and ended with
\* fewer, and the hidden word, not the first of the answer list, is returned
C10_Witness ==
    /\ pc = "prompt"
    /\ Len(feedbacks) >= 2
    /\ NumCandidates(SubSeq(feedbacks, 1, 1)) = 3
    /\ NumCandidates(feedbacks) < 3
    /\ guess = hidden
    /\ hidden # answerWords[1]

====
